---- MODULE Spec2Model ----
(***************************************************************************)
(* A model of jaxfenics/assemble.py: the forward evaluator assemble_eval,  *)
(* the reverse-mode rule vjp_assemble_eval with its closure vjp_fun and    *)
(* the builder vjp_assemble_impl, the forward-mode builder                 *)
(* jvp_assemble_eval, and the batching rule jax_assemble_eval_batch that   *)
(* build_jax_assemble_eval registers.                                      *)
(*                                                                         *)
(* The finite-element library is modelled by a family of quadratic         *)
(* functionals J(u_1..u_n) = SUM_i coef_i * SUM_j u_i[j]^2 : a form is the *)
(* record of its coefficients and of the values of the inputs it was built *)
(* on, fenics.derivative is a symbolic record, and fenics.assemble         *)
(* evaluates it.  Library calls are taken to succeed.  Floats are modelled *)
(* by integers.                                                            *)
(***************************************************************************)
EXTENDS Integers, Sequences, FiniteSets, TLC

\* ---------------------------------------------------------------- bounds
MaxInputs == 2
MaxBatch == 2
MaxClosureCalls == 2
MaxCotangent == 2

\* ------------------------------------------------------- numeric helpers
RECURSIVE SeqSum(_)
SeqSum(s) == IF s = <<>> THEN 0 ELSE Head(s) + SeqSum(Tail(s))

Min(a, b) == IF a <= b THEN a ELSE b

SeqsUpTo(S, n) == UNION {[1..m -> S] : m \in 0..n}

\* ------------------------------------------------------ values and types
\* One-dimensional numeric arrays handed in by the array framework.
Arrays == {<<1>>, <<2>>, <<1, 2>>, <<2, 2>>}

\* FenicsVariable templates: a field over a two-dof space, a scalar constant.
Templates ==
    {[kind |-> "Function", dim |-> 2], [kind |-> "Constant", dim |-> 1]}

None == [type |-> "NoneType"]
PyFloat(v) == [type |-> "float", val |-> v]
PyInt(v) == [type |-> "int", val |-> v]
PyTuple(items) == [type |-> "tuple", items |-> items]
NpArray(data) == [type |-> "array", data |-> data]

NoError == [kind |-> "none", reported |-> "", line |-> 0]
Raise(kind, reported, line) == [kind |-> kind, reported |-> reported, line |-> line]

NoResult == [type |-> "NoResult"]
Unbound == [type |-> "unbound"]

\* ------------------------------------------------- helpers (not in src/)
check_input(templates, a) ==
    /\ Len(a) = Len(templates)
    /\ \A i \in 1..Len(a) : Len(a[i]) = templates[i].dim

convert_all_to_fenics(templates, a) ==
    [i \in 1..Len(templates) |-> [kind |-> templates[i].kind, dim |-> templates[i].dim, vals |-> a[i]]]

ConvertOk(templates, a) ==
    /\ Len(a) = Len(templates)
    /\ \A i \in 1..Len(a) : Len(a[i]) = templates[i].dim

fenics_to_numpy(fg) == fg.data

\* ------------------------------------------- the finite-element library
\* The form of the functional SUM_i coef[i] * SUM_j u[i][j]^2.
Functional(coef, u) == [type |-> "Form", kind |-> "functional", coef |-> coef, u |-> u]

FormValue(form) ==
    SeqSum([i \in 1..Len(form.coef) |->
        form.coef[i] * SeqSum([j \in 1..Len(form.u[i]) |-> form.u[i][j] * form.u[i][j]])])

TestFunction(V) == [test |-> TRUE, dim |-> V.dim, vals |-> <<>>]
Direction(ft) == [test |-> FALSE, dim |-> ft.dim, vals |-> ft.vals]

\* fenics.derivative(form, fenics_inputs[i], dir): kept symbolic.
Derivative(form, i, dir) ==
    [type |-> "Form", kind |-> "derivative", of |-> form, wrt |-> i, dir |-> dir]

\* The Gateaux derivative of the functional with respect to input i along d.
Gateaux(form, i, d) ==
    SeqSum([j \in 1..Min(Len(form.u[i]), Len(d)) |-> 2 * form.coef[i] * form.u[i][j] * d[j]])

Basis(dim, j) == [m \in 1..dim |-> IF m = j THEN 1 ELSE 0]

\* A derivative with respect to an input the form does not depend on.
IsEmpty(dform) == dform.of.coef[dform.wrt] = 0

\* fenics.assemble of a derivative form: a vector over the test space, or a
\* number along a given direction.
Assemble(dform) ==
    IF dform.dir.test
    THEN NpArray([j \in 1..dform.dir.dim |-> Gateaux(dform.of, dform.wrt, Basis(dform.dir.dim, j))])
    ELSE PyFloat(Gateaux(dform.of, dform.wrt, dform.dir.vals))

\* What assembling a derivative form can come back as: its value, or, for an
\* empty derivative, possibly an undefined gradient.
AssembleOutcomes(dform) ==
    {Assemble(dform)} \cup (IF IsEmpty(dform) THEN {None} ELSE {})

\* ----------------------------------------------------- the user function
RetKinds == {"pair", "scalar", "single", "triple", "nested", "intfirst", "twoscalars"}
Deps == {"all", "skipfirst"}
UserFunctions ==
    {[ret |-> "pair", dep |-> d] : d \in Deps}
    \cup {[ret |-> r, dep |-> "all"] : r \in RetKinds \ {"pair"}}

Coef(fn, n) == [i \in 1..n |-> IF fn.dep = "skipfirst" /\ i = 1 THEN 0 ELSE i]

UserForm(fn, inputs) ==
    Functional(Coef(fn, Len(inputs)), [i \in 1..Len(inputs) |-> inputs[i].vals])

\* fenics_function(*fenics_inputs)
Apply(fn, inputs) ==
    LET form == UserForm(fn, inputs)
        v == PyFloat(FormValue(form))
    IN CASE fn.ret = "pair" -> PyTuple(<<v, form>>)
         [] fn.ret = "scalar" -> v
         [] fn.ret = "single" -> PyTuple(<<v>>)
         [] fn.ret = "triple" -> PyTuple(<<v, form, form>>)
         [] fn.ret = "nested" -> PyTuple(<<PyTuple(<<v, v>>), form>>)
         [] fn.ret = "intfirst" -> PyTuple(<<PyInt(FormValue(form)), form>>)
         [] fn.ret = "twoscalars" -> PyTuple(<<v, v>>)

\* --------------------------------------------------------------- state
VARIABLES
    fenics_function, fenics_templates,      \* what build_jax_assemble_eval decorated
    op, pc, err, result,                    \* the running call, its position and outcome
    args, fenics_inputs, out, ufl_form, numpy_output,           \* assemble_eval
    g, fenics_grads_forms, fenics_grads, jax_grad_tuple,        \* vjp_assemble_impl
    tangents, fenics_tangents, output_tangent_form, output_tangent, idx,  \* jvp_assemble_eval
    vector_arg_values, batch_axes, res,                         \* jax_assemble_eval_batch
    userCalls, evalCalls, builderCalls, closureCalls, nAssembled, log     \* history of the call

decorated == <<fenics_function, fenics_templates>>
evalVars == <<args, fenics_inputs, out, ufl_form, numpy_output>>
vjpVars == <<g, fenics_grads_forms, fenics_grads, jax_grad_tuple>>
jvpVars == <<tangents, fenics_tangents, output_tangent_form, output_tangent>>
batchVars == <<vector_arg_values, batch_axes, res>>
counters == <<userCalls, evalCalls, builderCalls, closureCalls, nAssembled>>

vars == <<decorated, op, pc, err, result, evalVars, vjpVars, jvpVars, idx, batchVars,
          counters, log>>

Cotangents == 0..MaxCotangent
ArgLists == SeqsUpTo(Arrays, MaxInputs)

Init ==
    /\ fenics_function \in UserFunctions
    /\ fenics_templates \in SeqsUpTo(Templates, MaxInputs)
    /\ op = "idle" /\ pc = "idle"
    /\ err = NoError /\ result = NoResult
    /\ args = <<>> /\ fenics_inputs = <<>>
    /\ out = None /\ ufl_form = None /\ numpy_output = None
    /\ g = 0 /\ fenics_grads_forms = <<>> /\ fenics_grads = <<>> /\ jax_grad_tuple = <<>>
    /\ tangents = <<>> /\ fenics_tangents = <<>>
    /\ output_tangent_form = None /\ output_tangent = Unbound /\ idx = 0
    /\ vector_arg_values = <<>> /\ batch_axes = <<>> /\ res = <<>>
    /\ userCalls = 0 /\ evalCalls = 0 /\ builderCalls = 0 /\ closureCalls = 0
    /\ nAssembled = 0 /\ log = <<>>

\* ------------------------------------------------------- assemble_eval
\* (variant) the second element of the pair is never looked at.
OutputErrorNoFormCheck(o) ==
    IF o.type # "tuple" THEN Raise("ValueError", "", 45)
    ELSE IF Len(o.items) # 2 THEN Raise("ValueError", "", 49)
    ELSE IF o.items[1].type = "tuple" THEN Raise("ValueError", "", 52)
    ELSE IF o.items[1].type # "float" THEN Raise("ValueError", o.items[1].type, 57)
    ELSE NoError

\* (variant) the message for a non-form second element names the type of the
\* whole return value.
OutputErrorWrongType(o) ==
    IF o.type # "tuple" THEN Raise("ValueError", "", 45)
    ELSE IF Len(o.items) # 2 THEN Raise("ValueError", "", 49)
    ELSE IF o.items[1].type = "tuple" THEN Raise("ValueError", "", 52)
    ELSE IF o.items[1].type # "float" THEN Raise("ValueError", o.items[1].type, 57)
    ELSE IF o.items[2].type # "Form" THEN Raise("ValueError", o.type, 62)
    ELSE NoError

\* The validation of the user function's return value.
OutputError(o) ==
    IF o.type # "tuple" THEN Raise("ValueError", "", 45)
    ELSE IF Len(o.items) # 2 THEN Raise("ValueError", "", 49)
    ELSE IF o.items[1].type = "tuple" THEN Raise("ValueError", "", 52)
    ELSE IF o.items[1].type # "float" THEN Raise("ValueError", o.items[1].type, 57)
    ELSE IF o.items[2].type # "Form" THEN Raise("ValueError", o.items[2].type, 62)
    ELSE NoError

AeCheck ==
    /\ pc = "ae_check"
    /\ evalCalls' = evalCalls + 1
    /\ log' = Append(log, "check")
    /\ IF check_input(fenics_templates, args)
       THEN pc' = "ae_convert" /\ err' = err
       ELSE pc' = "error" /\ err' = Raise("TypeCheckError", "", 40)
    /\ UNCHANGED <<decorated, op, result, evalVars, vjpVars, jvpVars, idx, batchVars,
                   userCalls, builderCalls, closureCalls, nAssembled>>

AeConvert ==
    /\ pc = "ae_convert"
    /\ log' = Append(log, "convert")
    /\ IF ConvertOk(fenics_templates, args)
       THEN /\ fenics_inputs' = convert_all_to_fenics(fenics_templates, args)
            /\ pc' = "ae_call" /\ err' = err
       ELSE /\ pc' = "error" /\ err' = Raise("TypeCheckError", "", 41)
            /\ UNCHANGED fenics_inputs
    /\ UNCHANGED <<decorated, op, result, args, out, ufl_form, numpy_output,
                   vjpVars, jvpVars, idx, batchVars, counters>>

AeCall ==
    /\ pc = "ae_call"
    /\ log' = Append(log, "call")
    /\ userCalls' = userCalls + 1
    /\ out' = Apply(fenics_function, fenics_inputs)
    /\ pc' = "ae_validate"
    /\ UNCHANGED <<decorated, op, err, result, args, fenics_inputs, ufl_form, numpy_output,
                   vjpVars, jvpVars, idx, batchVars,
                   evalCalls, builderCalls, closureCalls, nAssembled>>

AeValidate ==
    /\ pc = "ae_validate"
    /\ log' = Append(log, "validate")
    /\ LET e == OutputError(out)
       IN IF e # NoError
          THEN pc' = "error" /\ err' = e /\ UNCHANGED <<ufl_form, numpy_output>>
          ELSE /\ pc' = "ae_return" /\ err' = err
               /\ ufl_form' = out.items[2]
               /\ numpy_output' = NpArray(<<out.items[1].val>>)
    /\ UNCHANGED <<decorated, op, result, args, fenics_inputs, out,
                   vjpVars, jvpVars, idx, batchVars, counters>>

\* ---------------------------------------------- plain evaluation (def_impl)
CallEval(a) ==
    /\ pc = "idle"
    /\ op' = "eval" /\ pc' = "ae_check" /\ args' = a
    /\ UNCHANGED <<decorated, err, result, fenics_inputs, out, ufl_form, numpy_output,
                   vjpVars, jvpVars, idx, batchVars, counters, log>>

EvalReturn ==
    /\ pc = "ae_return" /\ op = "eval"
    /\ result' = numpy_output
    /\ pc' = "done"
    /\ UNCHANGED <<decorated, op, err, evalVars, vjpVars, jvpVars, idx, batchVars,
                   counters, log>>

\* ------------------------------------------------- vjp_assemble_impl
\* (variant) any other input is treated as a scalar constant.
TestSpaceFallback(fenics_input) ==
    IF fenics_input.kind = "Function" THEN [family |-> "own", dim |-> fenics_input.dim]
    ELSE [family |-> "Real", dim |-> 1]

\* The space the test function is drawn from.
TestSpace(fenics_input) ==
    IF fenics_input.kind = "Function" THEN [family |-> "own", dim |-> fenics_input.dim]
    ELSE IF fenics_input.kind = "Constant" THEN [family |-> "Real", dim |-> 1]
    ELSE [family |-> "NotImplemented", dim |-> 0]

\* (variant) the cotangent is left out of the product.
ScaleGradNoCotangent(gg, fg) ==
    IF fg = None THEN None
    ELSE NpArray([j \in 1..Len(fenics_to_numpy(fg)) |-> fenics_to_numpy(fg)[j]])

\* None if fg is None else np.asarray(g * fenics_to_numpy(fg))
ScaleGrad(gg, fg) ==
    IF fg = None THEN None
    ELSE NpArray([j \in 1..Len(fenics_to_numpy(fg)) |-> gg * fenics_to_numpy(fg)[j]])

\* One turn of the loop that builds the derivative forms.
ViLoop ==
    /\ pc = "vi_loop"
    /\ LET i == Len(fenics_grads_forms) + 1
       IN IF i > Len(fenics_inputs)
          THEN pc' = "vi_assemble" /\ UNCHANGED <<err, fenics_grads_forms>>
          ELSE LET V == TestSpace(fenics_inputs[i])
               IN IF V.family = "NotImplemented"
                  THEN /\ pc' = "error" /\ err' = Raise("NotImplementedError", "", 113)
                       /\ UNCHANGED fenics_grads_forms
                  ELSE /\ fenics_grads_forms' =
                             Append(fenics_grads_forms, Derivative(ufl_form, i, TestFunction(V)))
                       /\ UNCHANGED <<pc, err>>
    /\ UNCHANGED <<decorated, op, result, evalVars, g, fenics_grads, jax_grad_tuple,
                   jvpVars, idx, batchVars, counters, log>>

ViAssemble ==
    /\ pc = "vi_assemble"
    /\ fenics_grads' \in
         {fg \in [1..Len(fenics_grads_forms) -> {None} \cup
                     UNION {AssembleOutcomes(fenics_grads_forms[i]) : i \in 1..Len(fenics_grads_forms)}] :
              \A i \in 1..Len(fenics_grads_forms) : fg[i] \in AssembleOutcomes(fenics_grads_forms[i])}
    /\ nAssembled' = nAssembled + Len(fenics_grads_forms)
    /\ pc' = "vi_scale"
    /\ UNCHANGED <<decorated, op, err, result, evalVars, g, fenics_grads_forms, jax_grad_tuple,
                   jvpVars, idx, batchVars,
                   userCalls, evalCalls, builderCalls, closureCalls, log>>

ViScale ==
    /\ pc = "vi_scale"
    /\ jax_grad_tuple' = [i \in 1..Len(fenics_grads) |-> ScaleGrad(g, fenics_grads[i])]
    /\ pc' = "vi_return"
    /\ UNCHANGED <<decorated, op, err, result, evalVars, g, fenics_grads_forms, fenics_grads,
                   jvpVars, idx, batchVars, counters, log>>

\* A direct call of the builder on a form and the inputs it was built on.
\* The inputs are those the templates give, except that any of them may be of a
\* type that is neither fenics.Function nor fenics.Constant.
Unsupported == [kind |-> "Expression", dim |-> 1, vals |-> <<1>>]

FenicsInputLists(templates) ==
    {s \in [1..Len(templates) ->
               {Unsupported} \cup {[kind |-> t.kind, dim |-> t.dim, vals |-> a] :
                                      t \in Templates, a \in Arrays}] :
        \A i \in 1..Len(s) :
            \/ s[i] = Unsupported
            \/ s[i].kind = templates[i].kind /\ s[i].dim = templates[i].dim
               /\ Len(s[i].vals) = s[i].dim}

CallImpl(gg, inputs) ==
    /\ pc = "idle"
    /\ fenics_function.ret = "pair"
    /\ op' = "impl" /\ pc' = "vi_loop"
    /\ g' = gg
    /\ fenics_inputs' = inputs
    /\ ufl_form' = UserForm(fenics_function, inputs)
    /\ builderCalls' = builderCalls + 1
    /\ UNCHANGED <<decorated, err, result, args, out, numpy_output,
                   fenics_grads_forms, fenics_grads, jax_grad_tuple,
                   jvpVars, idx, batchVars,
                   userCalls, evalCalls, closureCalls, nAssembled, log>>

ImplReturn ==
    /\ pc = "vi_return" /\ op = "impl"
    /\ result' = PyTuple(jax_grad_tuple)
    /\ pc' = "done"
    /\ UNCHANGED <<decorated, op, err, evalVars, vjpVars, jvpVars, idx, batchVars,
                   counters, log>>

\* ------------------------------------------------- vjp_assemble_eval
zeros_like_jaxval(a) == NpArray([j \in 1..Len(a) |-> 0])

\* (variant) undefined gradients are handed on as they are.
vjp_fun_keep_none(grads, a) == grads

\* The tuple vjp_fun builds from the builder's result.
vjp_fun(grads, a) ==
    [i \in 1..Len(grads) |-> IF grads[i] # None THEN grads[i] ELSE zeros_like_jaxval(a[i])]

CallVjp(a) ==
    /\ pc = "idle"
    /\ op' = "vjp" /\ pc' = "ae_check" /\ args' = a
    /\ UNCHANGED <<decorated, err, result, fenics_inputs, out, ufl_form, numpy_output,
                   vjpVars, jvpVars, idx, batchVars, counters, log>>

\* (variant) the gradients are built during the forward pass.
VjpReturnEager ==
    /\ pc = "ae_return" /\ op = "vjp"
    /\ pc' = "vi_loop"
    /\ g' = 1
    /\ builderCalls' = builderCalls + 1
    /\ UNCHANGED <<decorated, op, err, result, evalVars,
                   fenics_grads_forms, fenics_grads, jax_grad_tuple, jvpVars, idx, batchVars,
                   userCalls, evalCalls, closureCalls, nAssembled, log>>

\* return numpy_output, vjp_fun
VjpReturn ==
    /\ pc = "ae_return" /\ op = "vjp"
    /\ pc' = "closure"
    /\ UNCHANGED <<decorated, op, err, result, evalVars, vjpVars, jvpVars, idx, batchVars,
                   counters, log>>

\* vjp_fun(g): enters the builder.
ClosureCall(gg) ==
    /\ pc = "closure"
    /\ closureCalls < MaxClosureCalls
    /\ closureCalls' = closureCalls + 1
    /\ builderCalls' = builderCalls + 1
    /\ g' = gg
    /\ fenics_grads_forms' = <<>> /\ fenics_grads' = <<>> /\ jax_grad_tuple' = <<>>
    /\ result' = NoResult
    /\ pc' = "vi_loop"
    /\ UNCHANGED <<decorated, op, err, evalVars, jvpVars, idx, batchVars,
                   userCalls, evalCalls, nAssembled, log>>

ClosureReturn ==
    /\ pc = "vi_return" /\ op = "vjp"
    /\ result' = PyTuple(vjp_fun(jax_grad_tuple, args))
    /\ pc' = "closure"
    /\ UNCHANGED <<decorated, op, err, evalVars, vjpVars, jvpVars, idx, batchVars,
                   counters, log>>

\* ------------------------------------------------- jvp_assemble_eval
FormAdd(total, dform) ==
    IF total.type = "float"
    THEN [type |-> "Form", kind |-> "sum", terms |-> <<dform>>]
    ELSE [type |-> "Form", kind |-> "sum", terms |-> Append(total.terms, dform)]

\* fenics.assemble(ufl.algorithms.expand_derivatives(form)) of a sum of
\* directional derivatives.
AssembleSum(form) ==
    PyFloat(SeqSum([t \in 1..Len(form.terms) |-> Assemble(form.terms[t]).val]))

\* (The tangents are read only after the forward evaluation: primals that fail
\* the template check are tried with the empty tangent list alone.)
CallJvp(primals, tans) ==
    /\ pc = "idle"
    /\ check_input(fenics_templates, primals) \/ tans = <<>>
    /\ op' = "jvp" /\ pc' = "ae_check"
    /\ args' = primals /\ tangents' = tans
    /\ UNCHANGED <<decorated, err, result, fenics_inputs, out, ufl_form, numpy_output,
                   vjpVars, fenics_tangents, output_tangent_form, output_tangent, idx,
                   batchVars, counters, log>>

JvpConvert ==
    /\ pc = "ae_return" /\ op = "jvp"
    /\ IF ConvertOk(fenics_inputs, tangents)
       THEN /\ fenics_tangents' = convert_all_to_fenics(fenics_inputs, tangents)
            /\ output_tangent_form' = PyFloat(0)
            /\ idx' = 1
            /\ pc' = "jvp_loop" /\ err' = err
       ELSE /\ pc' = "error" /\ err' = Raise("TypeCheckError", "", 147)
            /\ UNCHANGED <<fenics_tangents, output_tangent_form, idx>>
    /\ UNCHANGED <<decorated, op, result, evalVars, vjpVars, tangents, output_tangent,
                   batchVars, counters, log>>

JvpLoop ==
    /\ pc = "jvp_loop"
    /\ IF idx <= Min(Len(fenics_inputs), Len(fenics_tangents))
       THEN /\ output_tangent_form' =
                  FormAdd(output_tangent_form,
                          Derivative(ufl_form, idx, Direction(fenics_tangents[idx])))
            /\ idx' = idx + 1
            /\ pc' = pc
       ELSE pc' = "jvp_assemble" /\ UNCHANGED <<output_tangent_form, idx>>
    /\ UNCHANGED <<decorated, op, err, result, evalVars, vjpVars, tangents, fenics_tangents,
                   output_tangent, batchVars, counters, log>>

JvpAssemble ==
    /\ pc = "jvp_assemble"
    /\ IF output_tangent_form.type # "float"
       THEN /\ output_tangent' = AssembleSum(output_tangent_form)
            /\ nAssembled' = nAssembled + 1
       ELSE UNCHANGED <<output_tangent, nAssembled>>
    /\ pc' = "jvp_return"
    /\ UNCHANGED <<decorated, op, err, result, evalVars, vjpVars, tangents, fenics_tangents,
                   output_tangent_form, idx, batchVars,
                   userCalls, evalCalls, builderCalls, closureCalls, log>>

\* jax_output_tangent = output_tangent; return numpy_output_primal, jax_output_tangent
JvpReturn ==
    /\ pc = "jvp_return"
    /\ IF output_tangent = Unbound
       THEN pc' = "error" /\ err' = Raise("UnboundLocalError", "", 156) /\ UNCHANGED result
       ELSE pc' = "done" /\ result' = PyTuple(<<numpy_output, output_tangent>>) /\ err' = err
    /\ UNCHANGED <<decorated, op, evalVars, vjpVars, jvpVars, idx, batchVars, counters, log>>

\* ------------------------------------------- jax_assemble_eval_batch
\* A batch axis: 0, 1, or -1 for an argument that is not batched (None).
BatchAxes == {0, 1, -1}

ToSet(s) == {s[i] : i \in 1..Len(s)}

\* (variant) only the first batch axis is looked at.
BatchAxesErrorFirstOnly(axes) ==
    IF axes[1] # 0 THEN Raise("AssertionError", "", 190) ELSE NoError

\* The two assertions on batch_axes.
BatchAxesError(axes) ==
    IF Cardinality(ToSet(axes)) # 1 THEN Raise("AssertionError", "", 189)
    ELSE IF axes[1] # 0 THEN Raise("AssertionError", "", 190)
    ELSE NoError

\* map(f, *vector_arg_values) stops with the shortest argument.
MapLen(v) ==
    IF v = <<>> THEN 0
    ELSE CHOOSE n \in 0..MaxBatch + 1 :
           /\ \A i \in 1..Len(v) : n <= Len(v[i])
           /\ \E i \in 1..Len(v) : n = Len(v[i])

\* (variant) the argument sets are drawn from the far end of the batch.
SliceReversed(v, k) == [i \in 1..Len(v) |-> v[i][Len(v[i]) + 1 - k]]

\* The k-th argument set map hands to jax_assemble_eval.
Slice(v, k) == [i \in 1..Len(v) |-> v[i][k]]

\* Stacked arguments: every argument holds the same number of slices, and the
\* slices of one argument have one shape.  The batching rule is entered only
\* with a batched argument, so there is at least one argument.
BatchValues(n) ==
    {v \in [1..n -> UNION {[1..m -> Arrays] : m \in 1..MaxBatch}] :
        /\ n >= 1
        /\ \A i \in 1..n : Len(v[i]) = Len(v[1])
        /\ \A i \in 1..n : \A k \in 1..Len(v[i]) : Len(v[i][k]) = Len(v[i][1])}

\* (The values are read only after the assertions: batch axes that fail them
\* are tried on one-slice batches alone.)
CallBatch(v, axes) ==
    /\ pc = "idle"
    /\ BatchAxesError(axes) = NoError \/ Len(v[1]) = 1
    /\ op' = "batch" /\ pc' = "b_assert"
    /\ vector_arg_values' = v /\ batch_axes' = axes
    /\ UNCHANGED <<decorated, err, result, evalVars, vjpVars, jvpVars, idx, res, counters, log>>

BatchAssert ==
    /\ pc = "b_assert"
    /\ LET e == BatchAxesError(batch_axes)
       IN IF e # NoError
          THEN pc' = "error" /\ err' = e /\ UNCHANGED idx
          ELSE pc' = "b_map" /\ idx' = 1 /\ err' = err
    /\ UNCHANGED <<decorated, op, result, evalVars, vjpVars, jvpVars, batchVars, counters, log>>

\* map draws the next argument set and calls jax_assemble_eval on it.  (log
\* holds the steps of the forward evaluation in progress.)
BatchMap ==
    /\ pc = "b_map"
    /\ IF idx <= MapLen(vector_arg_values)
       THEN /\ args' = Slice(vector_arg_values, idx)
            /\ pc' = "ae_check"
       ELSE pc' = "b_stack" /\ UNCHANGED args
    /\ UNCHANGED <<decorated, op, err, result, fenics_inputs, out, ufl_form, numpy_output,
                   vjpVars, jvpVars, idx, batchVars, counters, log>>

BatchCollect ==
    /\ pc = "ae_return" /\ op = "batch"
    /\ res' = Append(res, numpy_output)
    /\ idx' = idx + 1
    /\ log' = <<>>
    /\ pc' = "b_map"
    /\ UNCHANGED <<decorated, op, err, result, evalVars, vjpVars, jvpVars,
                   vector_arg_values, batch_axes, counters>>

\* res = np.asarray(res); return res, batch_axes[0]
BatchReturn ==
    /\ pc = "b_stack"
    /\ result' = [type |-> "batched", vals |-> res, axis |-> batch_axes[1]]
    /\ pc' = "done"
    /\ UNCHANGED <<decorated, op, err, evalVars, vjpVars, jvpVars, idx, batchVars,
                   counters, log>>

\* ------------------------------------------------------------ the system
\* The call has ended (or its closure is dropped); the next call starts afresh.
Return ==
    /\ pc \in {"done", "error", "closure"}
    /\ op' = "idle" /\ pc' = "idle"
    /\ err' = NoError /\ result' = NoResult
    /\ args' = <<>> /\ fenics_inputs' = <<>>
    /\ out' = None /\ ufl_form' = None /\ numpy_output' = None
    /\ g' = 0 /\ fenics_grads_forms' = <<>> /\ fenics_grads' = <<>> /\ jax_grad_tuple' = <<>>
    /\ tangents' = <<>> /\ fenics_tangents' = <<>>
    /\ output_tangent_form' = None /\ output_tangent' = Unbound /\ idx' = 0
    /\ vector_arg_values' = <<>> /\ batch_axes' = <<>> /\ res' = <<>>
    /\ userCalls' = 0 /\ evalCalls' = 0 /\ builderCalls' = 0 /\ closureCalls' = 0
    /\ nAssembled' = 0 /\ log' = <<>>
    /\ UNCHANGED decorated

\* A call of one of the entry points, on inputs of the call's choosing.
Call ==
    /\ pc = "idle"
    /\ \/ \E a \in ArgLists : CallEval(a)
       \/ \E a \in ArgLists : CallVjp(a)
       \/ \E p \in ArgLists, t \in ArgLists : CallJvp(p, t)
       \/ \E gg \in Cotangents, inputs \in FenicsInputLists(fenics_templates) :
             CallImpl(gg, inputs)
       \/ \E v \in BatchValues(Len(fenics_templates)) :
             \E axes \in [1..Len(v) -> BatchAxes] : CallBatch(v, axes)

Next ==
    \/ Call
    \/ AeCheck \/ AeConvert \/ AeCall \/ AeValidate
    \/ EvalReturn
    \/ ViLoop \/ ViAssemble \/ ViScale \/ ImplReturn
    \/ VjpReturn
    \/ pc = "closure" /\ \E gg \in Cotangents : ClosureCall(gg)
    \/ ClosureReturn
    \/ JvpConvert \/ JvpLoop \/ JvpAssemble \/ JvpReturn
    \/ BatchAssert \/ BatchMap \/ BatchCollect \/ BatchReturn
    \/ Return

Spec == Init /\ [][Next]_vars
\* ============================================================== properties
\* The current forward evaluation has validated the user function's return value.
Validated == Len(log) = 4

\* Exactly a two-element tuple (scalar float, symbolic form).
IsScalarFormPair(o) ==
    /\ o.type = "tuple"
    /\ Len(o.items) = 2
    /\ o.items[1].type = "float"
    /\ o.items[2].type = "Form"

Supported(fenics_input) == fenics_input.kind \in {"Function", "Constant"}

\* C1: whenever the user function's return value is not exactly a pair
\* (scalar float, form), the forward evaluation ends in a ValueError and hands
\* back no output, no form and no result.
C1_ContractViolationIsFatal ==
    (Validated /\ ~IsScalarFormPair(out)) =>
        /\ pc = "error"
        /\ err.kind = "ValueError"
        /\ result = NoResult
        /\ ufl_form = None
        /\ numpy_output = None

C1_Witness ==
    /\ Validated
    /\ out.type = "tuple" /\ Len(out.items) = 2
    /\ out.items[1].type = "float" /\ out.items[2].type = "float"
    /\ pc = "error" /\ err.kind = "ValueError"

\* The type the claim calls offending: that of the return value when it is no
\* pair, of its first element when that is no scalar, of its second element
\* when that is no form.
OffendingType(o) ==
    IF o.type # "tuple" \/ Len(o.items) # 2 THEN o.type
    ELSE IF o.items[1].type # "float" THEN o.items[1].type
    ELSE o.items[2].type

\* C2 (as stated): every contract-violation error reports the offending
\* observed type.
C2_EveryCaseReportsType ==
    (Validated /\ pc = "error" /\ err.kind = "ValueError") =>
        err.reported = OffendingType(out)

\* C2 (amended): the error reports the observed type of the first element when
\* that is neither a tuple nor a float, and of the second element when the
\* first is a float and the second is no form; when the return value is no
\* tuple, has not two elements, or has a tuple as first element, the error
\* reports no type.
C2_TypeReportedForElementsOnly ==
    (Validated /\ pc = "error" /\ err.kind = "ValueError") =>
        IF out.type # "tuple" \/ Len(out.items) # 2 THEN err.reported = ""
        ELSE IF out.items[1].type = "tuple" THEN err.reported = ""
        ELSE IF out.items[1].type # "float" THEN err.reported = out.items[1].type
        ELSE err.reported = out.items[2].type

C2_Witness ==
    /\ Validated /\ pc = "error" /\ err.kind = "ValueError"
    /\ out.type = "tuple" /\ Len(out.items) = 2
    /\ out.items[1].type = "float" /\ out.items[2].type # "Form"
    /\ err.reported = out.items[2].type

\* C3: once the forward pass of the reverse-mode rule has succeeded, vjp_fun
\* never fails, and what it returns has one entry per numeric argument, in
\* order, none of them None: the builder's entry where that is defined, a zero
\* array of the argument's shape where it is not.
C3_VjpIsTotal ==
    /\ (op = "vjp" /\ closureCalls >= 1) => err = NoError
    /\ (op = "vjp" /\ pc = "closure" /\ closureCalls >= 1) =>
          /\ result.type = "tuple"
          /\ Len(result.items) = Len(args)
          /\ Len(args) = Len(fenics_templates)
          /\ \A i \in 1..Len(args) :
                /\ result.items[i] # None
                /\ result.items[i].type = "array"
                /\ jax_grad_tuple[i] = None =>
                      result.items[i].data = [j \in 1..Len(args[i]) |-> 0]
                /\ jax_grad_tuple[i] # None => result.items[i] = jax_grad_tuple[i]

C3_Witness ==
    /\ op = "vjp" /\ pc = "closure" /\ closureCalls >= 1
    /\ Len(args) = 2
    /\ jax_grad_tuple[1] = None /\ jax_grad_tuple[2] # None
    /\ result.items[1] = NpArray(<<0, 0>>)

\* C4: a call of the builder on inputs of which one is neither a Function nor
\* a Constant builds derivative forms only for the inputs before that one,
\* assembles nothing, returns nothing, and can end only in NotImplementedError.
C4_UnsupportedInputIsFatal ==
    (op = "impl" /\ \E i \in 1..Len(fenics_inputs) : ~Supported(fenics_inputs[i])) =>
        /\ pc \in {"vi_loop", "error"}
        /\ pc = "error" => err.kind = "NotImplementedError"
        /\ \A i \in 1..Len(fenics_grads_forms) : Supported(fenics_inputs[i])
        /\ Len(fenics_grads_forms) < Len(fenics_inputs)
        /\ nAssembled = 0
        /\ fenics_grads = <<>> /\ jax_grad_tuple = <<>>
        /\ result = NoResult

C4_Witness ==
    /\ op = "impl" /\ pc = "error" /\ err.kind = "NotImplementedError"
    /\ Len(fenics_inputs) = 2
    /\ Supported(fenics_inputs[1]) /\ ~Supported(fenics_inputs[2])
    /\ Len(fenics_grads_forms) = 1
    /\ nAssembled = 0 /\ result = NoResult

\* C5 (as stated): when the accumulated total is still the float zero, the
\* forward-mode builder returns (primal output, zero) without assembling.
C5_ZeroTangentReturned ==
    (op = "jvp" /\ output_tangent_form.type = "float" /\ pc \in {"done", "error"}) =>
        /\ pc = "done"
        /\ err = NoError
        /\ result = PyTuple(<<numpy_output, PyFloat(0)>>)
        /\ nAssembled = 0

\* The reverse-mode gradient for input i with cotangent 1, for each way the
\* assembly of its derivative form can come back.
ReverseGradients(i) ==
    {vjp_fun(<<ScaleGrad(1, fg)>>, <<args[i]>>)[1] :
        fg \in AssembleOutcomes(
                 Derivative(ufl_form, i, TestFunction(TestSpace(fenics_inputs[i]))))}

Inner(a, b) == SeqSum([j \in 1..Len(a) |-> a[j] * b[j]])

\* C8 (as stated): for primals that evaluate and tangents that match them, the
\* forward-mode builder returns the forward value of the reverse-mode rule and,
\* as tangent output, the sum over the inputs of the inner product of the
\* reverse-mode gradient with the tangent.
C8_ForwardReverseConsistent ==
    (/\ op = "jvp" /\ pc \in {"done", "error"}
     /\ Validated /\ IsScalarFormPair(out)
     /\ ConvertOk(fenics_inputs, tangents)) =>
        /\ pc = "done"
        /\ result.type = "tuple" /\ Len(result.items) = 2
        /\ result.items[1] = NpArray(<<out.items[1].val>>)
        /\ \A grads \in [1..Len(args) -> UNION {ReverseGradients(i) : i \in 1..Len(args)}] :
              (\A i \in 1..Len(args) : grads[i] \in ReverseGradients(i)) =>
                  result.items[2] =
                      PyFloat(SeqSum([i \in 1..Len(args) |-> Inner(grads[i].data, tangents[i])]))

\* The same with at least one input: the accumulated total is then a form.
C8_ConsistentWithInputs ==
    Len(fenics_templates) >= 1 => C8_ForwardReverseConsistent

\* The k-th argument set of the batch, and what plain evaluation makes of it.
KthArgs(k) == [i \in 1..Len(vector_arg_values) |-> vector_arg_values[i][k]]

PlainEvaluates(a) ==
    /\ check_input(fenics_templates, a)
    /\ IsScalarFormPair(Apply(fenics_function, convert_all_to_fenics(fenics_templates, a)))

PlainValue(a) ==
    NpArray(<<Apply(fenics_function, convert_all_to_fenics(fenics_templates, a)).items[1].val>>)

\* C6: the batching rule, on arguments all batched along axis 0 with N slices
\* each, returns N results, the k-th being the plain evaluation of the k-th
\* slices of the arguments, and the output batch axis 0; it fails past its
\* assertions only where the plain evaluation of a slice fails.
C6_BatchIsStackedPlainEvaluation ==
    /\ (op = "batch" /\ pc = "done") =>
          /\ result.type = "batched"
          /\ result.axis = 0
          /\ \A i \in 1..Len(vector_arg_values) :
                Len(result.vals) = Len(vector_arg_values[i])
          /\ \A k \in 1..Len(result.vals) :
                PlainEvaluates(KthArgs(k)) /\ result.vals[k] = PlainValue(KthArgs(k))
    /\ (op = "batch" /\ pc = "error" /\ err.kind # "AssertionError") =>
          /\ ~PlainEvaluates(KthArgs(idx))
          /\ \A k \in 1..(idx - 1) : res[k] = PlainValue(KthArgs(k))

C6_Witness ==
    /\ op = "batch" /\ pc = "done"
    /\ Len(result.vals) = 2
    /\ result.vals[1] # result.vals[2]
    /\ userCalls = 2

\* C7: with batch axes that are not all equal, or whose common value is not 0,
\* the batching rule ends in an AssertionError before any evaluation: the
\* forward evaluator is not entered and the user function is not invoked.
C7_BadBatchAxesAssert ==
    (/\ op = "batch" /\ pc # "b_assert"
     /\ \/ \E i, j \in 1..Len(batch_axes) : batch_axes[i] # batch_axes[j]
        \/ batch_axes[1] # 0) =>
        /\ pc = "error"
        /\ err.kind = "AssertionError"
        /\ evalCalls = 0 /\ userCalls = 0 /\ log = <<>>
        /\ res = <<>> /\ result = NoResult

C7_Witness ==
    /\ op = "batch" /\ pc = "error" /\ err.kind = "AssertionError"
    /\ batch_axes = <<0, -1>>
    /\ evalCalls = 0 /\ userCalls = 0

\* The dimension of the space the derivative with respect to an input is
\* taken along: the input's own for a field, one for a scalar constant.
DirectionDim(fenics_input) ==
    IF fenics_input.kind = "Function" THEN fenics_input.dim ELSE 1

\* C9: on supported inputs the builder returns one entry per input, having
\* assembled, for input i, the derivative of the form with respect to input i
\* along a test function of input i's own space (a field) or of a one-dof
\* space (a constant); where that assembled derivative is defined, entry i is
\* the cotangent times it, and so all zero for a zero cotangent.
C9_EntryIsScaledDerivative ==
    /\ (pc = "vi_return" \/ (op = "impl" /\ pc = "done")) =>
          /\ Len(jax_grad_tuple) = Len(fenics_inputs)
          /\ Len(fenics_grads_forms) = Len(fenics_inputs)
          /\ nAssembled = builderCalls * Len(fenics_inputs)
          /\ \A i \in 1..Len(fenics_inputs) :
                /\ fenics_grads_forms[i].of = ufl_form
                /\ fenics_grads_forms[i].wrt = i
                /\ fenics_grads_forms[i].dir.test
                /\ fenics_grads_forms[i].dir.dim = DirectionDim(fenics_inputs[i])
                /\ IF fenics_grads[i] = None THEN jax_grad_tuple[i] = None
                   ELSE /\ jax_grad_tuple[i] =
                             NpArray([j \in 1..DirectionDim(fenics_inputs[i]) |->
                                 g * (2 * ufl_form.coef[i] * fenics_inputs[i].vals[j])])
                        /\ g = 0 => \A j \in 1..Len(jax_grad_tuple[i].data) :
                                        jax_grad_tuple[i].data[j] = 0
    /\ (op = "impl" /\ pc = "done") => result = PyTuple(jax_grad_tuple)

C9_Witness ==
    /\ op = "impl" /\ pc = "done"
    /\ g = 2
    /\ Len(fenics_inputs) = 2
    /\ fenics_inputs[1].kind = "Function" /\ fenics_inputs[2].kind = "Constant"
    /\ result.items[1] = NpArray(<<4, 8>>)
    /\ result.items[2] = NpArray(<<16>>)

ForwardSteps == <<"check", "convert", "call", "validate">>

\* C10: a forward evaluation runs its steps in the order template check,
\* conversion, user function, validation; the user function is invoked once
\* per forward evaluation and not at all when the template check fails; plain
\* evaluation, the reverse-mode rule and the forward-mode builder evaluate
\* once; the builder runs once per call of the closure and never before; the
\* closure never evaluates or invokes the user function again.
C10_ForwardOnceInOrder ==
    /\ Len(log) <= 4 /\ \A s \in 1..Len(log) : log[s] = ForwardSteps[s]
    /\ evalCalls = Len(res) + (IF log = <<>> THEN 0 ELSE 1)
    /\ userCalls = Len(res) + (IF Len(log) >= 3 THEN 1 ELSE 0)
    /\ (log # <<>> /\ ~check_input(fenics_templates, args)) =>
          (Len(log) = 1 /\ pc = "error" /\ err.kind = "TypeCheckError")
    /\ op \in {"eval", "vjp", "jvp"} => (evalCalls <= 1 /\ userCalls <= 1)
    /\ (op \in {"eval", "jvp"} /\ pc = "done") => (evalCalls = 1 /\ userCalls = 1)
    /\ op = "vjp" => builderCalls = closureCalls
    /\ (op = "vjp" /\ closureCalls = 0) =>
          (nAssembled = 0 /\ fenics_grads_forms = <<>> /\ jax_grad_tuple = <<>>)
    /\ (op = "vjp" /\ (pc = "closure" \/ closureCalls >= 1)) =>
          (evalCalls = 1 /\ userCalls = 1 /\ Validated)
    /\ op \in {"eval", "jvp", "batch"} => builderCalls = 0

C10_Witness ==
    /\ op = "vjp" /\ pc = "closure"
    /\ closureCalls = 2 /\ builderCalls = 2
    /\ evalCalls = 1 /\ userCalls = 1
    /\ log = ForwardSteps
====
